---------------------------- MODULE Spec2Model ----------------------------
(***************************************************************************)
(* Model of the listing finder: the normalizeAndDedupeListings tool in its *)
(* three implemented variants, the fetchHtmlPage tool, and the runWorkflow *)
(* entry point behind POST /runWorkflow.                                   *)
(*                                                                         *)
(* Variants (one per source file section):                                 *)
(*   "stub"   src/src/main.ts            tools unimplemented, guardrail    *)
(*   "tpm"    src/unnamed/part_000       serialized tools, no guardrail    *)
(*   "strict" src/unnamed/part_001:1-219 strict schemas, guardrail         *)
(*   "loose"  src/unnamed/part_001:221-  z.record(z.any()), guardrail      *)
(*                                                                         *)
(* Strings are sequences of one-character strings, so that trimming,       *)
(* digit stripping and number parsing are computed, not assumed.           *)
(***************************************************************************)
EXTENDS Integers, Sequences, FiniteSets, TLC

VARIABLES
    nvariant,   \* which normalizeAndDedupeListings implementation runs
    listings,   \* input.listings of the invocation
    npc,        \* "ready" | "done" | "redone"
    out,        \* the listings array returned by the invocation
    kept,       \* history: input index of each out.push, in push order
    out2,       \* result of normalizing `out` again with the same variant
    wvariant,   \* which runWorkflow implementation serves the request
    wpc,        \* position of the request in runWorkflow / the HTTP handler
    guardResults, \* what the guardrail provider answers for this input text
    guardDone,  \* runGuardrails has resolved in this run
    agentRuns,  \* number of runner.run invocations in this run
    turns,      \* planner responses consumed so far
    calls,      \* tool name -> number of times its execute ran in this run
    parCalls,   \* tool calls issued within the current planner response
    fetch,      \* one fetchHtmlPage invocation: variant, upstream, result
    final,      \* result.finalOutput: "none" | "present" | "undefined"
                \*   ("none": runner.run has not resolved)
    response,   \* what the HTTP handler sent
    search,     \* one searchRealEstateListings invocation
    pricing,    \* one application of toPrice / numberFromPriceLike
    runs        \* normalizeAndDedupeListings invocations of two runs

nvars == <<nvariant, listings, npc, out, kept, out2>>
wvars == <<wvariant, wpc, guardResults, guardDone, agentRuns, turns, calls,
           parCalls, final, response>>
tvars == <<search, pricing, runs>>
vars == <<nvars, wvars, fetch, tvars>>

-----------------------------------------------------------------------------
(* JavaScript values.  Every value has the same record shape so that any   *)
(* two can be compared.  A number is n / 10^d, with d = 0 or n % 10 # 0.   *)

Undefined == [t |-> "undefined", s |-> <<>>, n |-> 0, d |-> 0]
Null == [t |-> "null", s |-> <<>>, n |-> 0, d |-> 0]
NaN == [t |-> "NaN", s |-> <<>>, n |-> 0, d |-> 0]
Str(s) == [t |-> "string", s |-> s, n |-> 0, d |-> 0]
Num(n) == [t |-> "number", s |-> <<>>, n |-> n, d |-> 0]

RECURSIVE Dec(_, _)
Dec(n, d) ==
    IF d > 0 /\ n % 10 = 0 THEN Dec(n \div 10, d - 1)
    ELSE [t |-> "number", s |-> <<>>, n |-> n, d |-> d]

IsNullish(v) == v.t \in {"undefined", "null"}
IsString(v) == v.t = "string"
IsNumber(v) == v.t = "number"
IsInteger(v) == v.t = "number" /\ v.d = 0

\* a ?? b
Coalesce(a, b) == IF IsNullish(a) THEN b ELSE a

\* ToBoolean: undefined, null, "", 0 and NaN are falsy
Truthy(v) ==
    CASE v.t \in {"undefined", "null", "NaN"} -> FALSE
      [] v.t = "string" -> v.s # <<>>
      [] OTHER -> v.n # 0

Digits == {"0", "1", "2", "3", "4", "5", "6", "7", "8", "9"}
Whitespace == {" "}

DigitVal(c) ==
    CASE c = "0" -> 0 [] c = "1" -> 1 [] c = "2" -> 2 [] c = "3" -> 3
      [] c = "4" -> 4 [] c = "5" -> 5 [] c = "6" -> 6 [] c = "7" -> 7
      [] c = "8" -> 8 [] c = "9" -> 9

DigitChar(k) == <<"0", "1", "2", "3", "4", "5", "6", "7", "8", "9">>[k + 1]

RECURSIVE TrimStart(_)
TrimStart(s) ==
    IF s # <<>> /\ Head(s) \in Whitespace THEN TrimStart(Tail(s)) ELSE s

RECURSIVE TrimEnd(_)
TrimEnd(s) ==
    IF s # <<>> /\ s[Len(s)] \in Whitespace
    THEN TrimEnd(SubSeq(s, 1, Len(s) - 1))
    ELSE s

\* String.prototype.trim
Trim(s) == TrimEnd(TrimStart(s))

IsDigit(c) == c \in Digits
IsDigitOrDot(c) == c \in Digits \cup {"."}

\* s.replace(/[^\d]/g, "")
StripNonDigits(s) == SelectSeq(s, IsDigit)

\* s.replace(/[^\d.]/g, "")
StripNonDigitsDots(s) == SelectSeq(s, IsDigitOrDot)

\* value of a run of decimal digits; the empty run is 0, as Number("") is
RECURSIVE DigitsValue(_)
DigitsValue(s) ==
    IF s = <<>> THEN 0
    ELSE 10 * DigitsValue(SubSeq(s, 1, Len(s) - 1)) + DigitVal(s[Len(s)])

RECURSIVE NatToDigits(_)
NatToDigits(k) ==
    IF k < 10 THEN <<DigitChar(k)>>
    ELSE NatToDigits(k \div 10) \o <<DigitChar(k % 10)>>

\* the d low-order digits of k, zero padded
RECURSIVE FractionDigits(_, _)
FractionDigits(k, d) ==
    IF d = 0 THEN <<>>
    ELSE FractionDigits(k \div 10, d - 1) \o <<DigitChar(k % 10)>>

Pow10(d) == IF d = 0 THEN 1 ELSE IF d = 1 THEN 10 ELSE IF d = 2 THEN 100 ELSE 1000

DotPositions(s) == {i \in 1..Len(s) : s[i] = "."}

\* Number(<string>) for strings over digits, ".", blanks and characters that
\* start no numeric literal: blank -> 0, digits[.digits] -> the number,
\* anything else -> NaN
NumberOfString(s) ==
    LET t == Trim(s)
        dots == DotPositions(t)
    IN  IF t = <<>> THEN Num(0)
        ELSE IF \E i \in 1..Len(t) : ~IsDigitOrDot(t[i]) THEN NaN
        ELSE IF dots = {} THEN Num(DigitsValue(t))
        ELSE IF Cardinality(dots) > 1 \/ Len(t) = 1 THEN NaN
        ELSE LET p == CHOOSE i \in dots : TRUE
                 frac == SubSeq(t, p + 1, Len(t))
             IN  Dec(DigitsValue(SubSeq(t, 1, p - 1)) * Pow10(Len(frac))
                        + DigitsValue(frac), Len(frac))

\* String(v)
JsString(v) ==
    CASE v.t = "string" -> v.s
      [] v.t = "undefined" -> <<"u", "n", "d", "e", "f", "i", "n", "e", "d">>
      [] v.t = "null" -> <<"n", "u", "l", "l">>
      [] v.t = "NaN" -> <<"N", "a", "N">>
      [] OTHER ->
            IF v.d = 0 THEN NatToDigits(v.n)
            ELSE NatToDigits(v.n \div Pow10(v.d)) \o <<".">>
                    \o FractionDigits(v.n % Pow10(v.d), v.d)

\* Number(v)
ToNumber(v) ==
    CASE v.t = "string" -> NumberOfString(v.s)
      [] v.t = "undefined" -> NaN
      [] v.t = "null" -> Num(0)
      [] OTHER -> v

\* Number.isFinite(v)
IsFinite(v) == v.t = "number"

-----------------------------------------------------------------------------
(* normalizeAndDedupeListings                                              *)

\* "MLS non trouve / MLS not found", its accented letter written as ASCII;
\* no input string of the model contains either letter
SENTINEL ==
    <<"M", "L", "S", " ", "n", "o", "n", " ", "t", "r", "o", "u", "v", "e",
      " ", "/", " ", "M", "L", "S", " ", "n", "o", "t", " ", "f", "o", "u",
      "n", "d">>

MaxListings == 12

FragmentFields ==
    {"mls", "MLS", "listingId", "MLSr", "url", "address", "price",
     "priceText", "price_str", "askingPrice", "beds", "baths", "type",
     "note_fr", "note_en"}

\* const toInt (tpm)
toInt(v) ==
    IF IsNullish(v) THEN Null
    ELSE LET n == ToNumber(Str(StripNonDigits(JsString(v))))
         IN  IF IsFinite(n) THEN n ELSE Null

\* const toPrice (tpm)
toPrice(s) ==
    IF ~Truthy(s) THEN Null
    ELSE LET n == ToNumber(Str(StripNonDigits(JsString(s))))
         IN  IF IsFinite(n) THEN n ELSE Null

\* const numberFromPriceLike (strict)
numberFromPriceLike(s) ==
    IF ~Truthy(s) THEN Null
    ELSE LET raw == StripNonDigits(JsString(s))
         IN  IF raw = <<>> THEN Null
             ELSE LET n == ToNumber(Str(raw))
                  IN  IF IsFinite(n) THEN n ELSE Null

\* (it.mls ?? it.MLS ?? it.listingId ?? it["MLS(R)"])?.toString()?.trim()
\*     || SENTINEL        (tpm and strict; field MLSr is the "MLS(R)" key)
ResolveMlsTrimmed(it) ==
    LET v == Coalesce(it.mls, Coalesce(it.MLS, Coalesce(it.listingId, it.MLSr)))
        t == IF IsNullish(v) THEN Undefined ELSE Str(Trim(JsString(v)))
    IN  IF Truthy(t) THEN t ELSE Str(SENTINEL)

\* it.mls ?? it.MLS ?? SENTINEL                               (loose)
ResolveMlsLoose(it) == Coalesce(it.mls, Coalesce(it.MLS, Str(SENTINEL)))

ResolveMls(v, it) ==
    IF v = "loose" THEN ResolveMlsLoose(it) ELSE ResolveMlsTrimmed(it)

MlsPrefix == <<"M", "L", "S", ":">>
UrlPrefix == <<"U", "R", "L", ":">>

\* mls !== SENTINEL ? `MLS:${mls}` : it.url ? `URL:${it.url}` : ""
KeyTpmNoUrl(it, mls) ==
    IF mls # Str(SENTINEL) THEN Str(MlsPrefix \o JsString(mls)) ELSE Str(<<>>)

KeyTpm(it, mls) ==
    IF mls # Str(SENTINEL) THEN Str(MlsPrefix \o JsString(mls))
    ELSE IF Truthy(it.url) THEN Str(UrlPrefix \o JsString(it.url))
    ELSE Str(<<>>)

\* mls !== SENTINEL ? `MLS:${mls}` : it.url ?? ""       (strict and loose)
KeyBare(it, mls) ==
    IF mls # Str(SENTINEL) THEN Str(MlsPrefix \o JsString(mls))
    ELSE Coalesce(it.url, Str(<<>>))

DedupKey(v, it, mls) == IF v = "tpm" THEN KeyTpm(it, mls) ELSE KeyBare(it, mls)

\* if (key && seen.has(key)) continue;     (tpm and strict)
\* if (seen.has(key)) continue;            (loose)
IsDuplicate(v, key, seen) ==
    IF v = "loose" THEN key \in seen ELSE Truthy(key) /\ key \in seen

\* if (key) seen.add(key);                 (tpm and strict)
\* seen.add(key);                          (loose)
Remember(v, key, seen) ==
    IF v = "loose" \/ Truthy(key) THEN seen \cup {key} ELSE seen

PriceAlias(it) == Coalesce(it.priceText, Coalesce(it.price_str, it.askingPrice))

EntryTpm(it, mls) ==
    [mls |-> mls,
     url |-> Coalesce(it.url, Null),
     address |-> Coalesce(it.address, Null),
     price |-> IF ~IsNullish(it.price) THEN ToNumber(it.price)
               ELSE toPrice(PriceAlias(it)),
     beds |-> toInt(it.beds),
     baths |-> toInt(it.baths),
     type |-> Coalesce(it.type, Null),
     note_fr |-> Coalesce(it.note_fr, Null),
     note_en |-> Coalesce(it.note_en, Null)]

EntryStrict(it, mls) ==
    LET price == IF ~IsNullish(it.price) THEN ToNumber(it.price)
                 ELSE numberFromPriceLike(PriceAlias(it))
    IN  [mls |-> mls,
         url |-> Coalesce(it.url, Null),
         address |-> Coalesce(it.address, Null),
         price |-> IF IsFinite(price) THEN price ELSE Null,
         beds |-> IF ~IsNullish(it.beds)
                  THEN ToNumber(Str(StripNonDigits(JsString(it.beds))))
                  ELSE Null,
         baths |-> IF ~IsNullish(it.baths)
                   THEN ToNumber(Str(StripNonDigitsDots(JsString(it.baths))))
                   ELSE Null,
         type |-> Coalesce(it.type, Null),
         note_fr |-> Coalesce(it.note_fr, Null),
         note_en |-> Coalesce(it.note_en, Null)]

\* the loose variant pushes no note_fr / note_en property
EntryLoose(it, mls) ==
    [mls |-> mls,
     url |-> Coalesce(it.url, Null),
     address |-> Coalesce(it.address, Null),
     price |-> IF Truthy(ToNumber(it.price)) THEN ToNumber(it.price) ELSE Null,
     beds |-> Coalesce(it.beds, Null),
     baths |-> Coalesce(it.baths, Null),
     type |-> Coalesce(it.type, Null),
     note_fr |-> Undefined,
     note_en |-> Undefined]

Entry(v, it, mls) ==
    CASE v = "tpm" -> EntryTpm(it, mls)
      [] v = "strict" -> EntryStrict(it, mls)
      [] OTHER -> EntryLoose(it, mls)

\* if (out.length >= 12) break;
CapReachedLate(o) == Len(o) > MaxListings

CapReached(o) == Len(o) >= MaxListings

\* the for loop of execute: acc.out is `out`, acc.seen is `seen`, acc.kept
\* records which iteration each push belongs to
RECURSIVE NormalizeLoop(_, _, _, _)
NormalizeLoop(v, input, i, acc) ==
    IF i > Len(input) THEN acc
    ELSE LET it == input[i]
             mls == ResolveMls(v, it)
             key == DedupKey(v, it, mls)
         IN  IF IsDuplicate(v, key, acc.seen)
             THEN NormalizeLoop(v, input, i + 1, acc)
             ELSE LET next == [seen |-> Remember(v, key, acc.seen),
                               out |-> Append(acc.out, Entry(v, it, mls)),
                               kept |-> Append(acc.kept, i)]
                  IN  IF CapReached(next.out) THEN next
                      ELSE NormalizeLoop(v, input, i + 1, next)

\* execute: async (input) => { ... return { listings: out } }
Execute(v, input) ==
    NormalizeLoop(v, input, 1, [seen |-> {}, out |-> <<>>, kept |-> <<>>])

\* an emitted entry handed back as a fragment: its own properties, no alias
AsFragment(e) ==
    [f \in FragmentFields |-> IF f \in DOMAIN e THEN e[f] ELSE Undefined]

AsFragments(o) == [k \in 1..Len(o) |-> AsFragment(o[k])]

-----------------------------------------------------------------------------
(* Input batches of normalizeAndDedupeListings                             *)

MaxLen == 2     \* short batches: every sequence of Fragments up to MaxLen
MaxLong == 14   \* long batches: up to MaxLong fragments, to pass the cap

Blank == [f \in FragmentFields |-> Undefined]

\* a fragment whose nine schema properties are all present and null
AllNull ==
    [f \in FragmentFields |->
        IF f \in {"MLS", "listingId", "MLSr", "priceText", "price_str",
                  "askingPrice"}
        THEN Undefined ELSE Null]

IdA1 == <<"A", "1">>
IdA2 == <<"A", "2">>
Url1 == <<"u", "/", "1">>
Url2 == <<"u", "/", "2">>
Text == <<"A">>

Fragments ==
    { \* an identifier and a url
      [Blank EXCEPT !.mls = Str(IdA1), !.url = Str(Url1)],
      \* the same identifier with blanks around it, another url, a note
      [Blank EXCEPT !.mls = Str(<<" ">> \o IdA1 \o <<" ">>),
                    !.url = Str(Url2), !.note_fr = Str(Text)],
      \* no identifier, a url
      [Blank EXCEPT !.mls = Null, !.url = Str(Url1)],
      \* no identifier, the empty string as url
      [Blank EXCEPT !.url = Str(<<>>)],
      \* canonical, sentinel identifier, no url
      [AllNull EXCEPT !.mls = Str(SENTINEL)],
      \* canonical, sentinel identifier, a url
      [AllNull EXCEPT !.mls = Str(SENTINEL), !.url = Str(Url1)],
      \* mls present but empty, MLS set
      [Blank EXCEPT !.mls = Str(<<>>), !.MLS = Str(IdA2), !.url = Null],
      \* MLS blank, listingId set
      [Blank EXCEPT !.MLS = Str(<<" ">>), !.listingId = Str(IdA1)],
      \* no identifier, a url that reads like an identifier key
      [Blank EXCEPT !.mls = Null, !.url = Str(MlsPrefix \o IdA1)],
      \* string-typed numeric fields
      [Blank EXCEPT !.mls = Str(IdA2), !.price = Str(<<"$", "4", ",", "5">>),
                    !.beds = Str(<<"3", " ", "A">>),
                    !.baths = Str(<<"2", ".", "5">>)],
      \* price only under an alias, fractional baths
      [Blank EXCEPT !.mls = Str(<<"A", "3">>),
                    !.priceText = Str(<<"$", "4", ",", "5">>),
                    !.beds = Num(3), !.baths = Dec(25, 1)],
      \* canonical, every field set
      [AllNull EXCEPT !.mls = Str(<<"A", "4">>), !.url = Str(Url2),
                      !.address = Str(Text), !.price = Num(450),
                      !.beds = Num(3), !.baths = Num(2), !.type = Str(Text),
                      !.note_fr = Str(Text), !.note_en = Str(Text)],
      \* canonical, price 0
      [AllNull EXCEPT !.mls = Str(<<"A", "5">>), !.price = Num(0)],
      \* numeric fields holding text without a digit
      [Blank EXCEPT !.url = Str(Url2), !.priceText = Str(Text),
                    !.beds = Str(Text), !.baths = Str(<<".">>)] }

ShortBatches(n) == [1..n -> Fragments]

\* the k-th of a run of canonical fragments with pairwise distinct identifiers
Fresh(k) ==
    [AllNull EXCEPT !.mls = Str(<<DigitChar(k \div 10), DigitChar(k % 10)>>)]

LongSpecials ==
    { Fresh(1),
      [AllNull EXCEPT !.mls = Str(SENTINEL)],
      [AllNull EXCEPT !.mls = Str(SENTINEL), !.url = Str(Url1)],
      [Blank EXCEPT !.mls = Null, !.url = Str(Url1)] }

\* a run of n distinct fragments with positions p and q overwritten by f
\* and g; position 0 overwrites nothing
LongBatch(n, p, f, q, g) ==
    [i \in 1..n |-> IF i = p THEN f ELSE IF i = q THEN g ELSE Fresh(i)]

LongLengths == (MaxListings - 1)..MaxLong

NormalizeVariants == {"tpm", "strict", "loose"}

-----------------------------------------------------------------------------
(* One invocation of normalizeAndDedupeListings, then one more on its      *)
(* own output                                                              *)

ToolNames == {"normalize", "extract", "fetch", "search"}

FetchIdle ==
    fetch = [variant |-> "tpm", pc |-> "idle", upstream |-> "none",
             ok |-> FALSE, body |-> <<>>, html |-> <<>>]

SearchIdle ==
    search = [variant |-> "tpm", pc |-> "idle", key |-> FALSE, num |-> 1,
              upstream |-> "none", ok |-> FALSE, links |-> <<>>,
              results |-> <<>>]

PricingIdle ==
    pricing = [fn |-> "toPrice", pc |-> "idle", input |-> Null,
               result |-> Null]

RunsIdle ==
    runs = [variant |-> "tpm", seenLeft |-> {},
            run |-> [r \in 1..2 |->
                        [pc |-> "idle", input |-> <<>>, out |-> <<>>,
                         kept |-> <<>>]]]

WorkflowIdle ==
    /\ wvariant = "stub"
    /\ wpc = "idle"
    /\ guardResults = <<>>
    /\ guardDone = FALSE
    /\ agentRuns = 0
    /\ turns = 0
    /\ calls = [x \in ToolNames |-> 0]
    /\ parCalls = 0
    /\ final = "none"
    /\ response = [status |-> 0, body |-> "none"]

InitNormalize ==
    /\ nvariant \in NormalizeVariants
    /\ \/ \E n \in 0..MaxLen : listings \in ShortBatches(n)
       \/ \E n \in LongLengths :
            \E q \in 0..n, f, g \in LongSpecials :
                \E p \in {x \in 0..q : x = 0 \/ x < q} :
                    listings = LongBatch(n, p, f, q, g)
    /\ npc = "ready"
    /\ out = <<>>
    /\ kept = <<>>
    /\ out2 = <<>>
    /\ WorkflowIdle
    /\ FetchIdle
    /\ SearchIdle
    /\ PricingIdle
    /\ RunsIdle

ExecuteNormalize ==
    /\ npc = "ready"
    /\ LET r == Execute(nvariant, listings)
       IN  /\ out' = r.out
           /\ kept' = r.kept
    /\ npc' = "done"
    /\ UNCHANGED <<nvariant, listings, out2, wvars, fetch, tvars>>

ExecuteOnOutput ==
    /\ npc = "done"
    /\ out2' = Execute(nvariant, AsFragments(out)).out
    /\ npc' = "redone"
    /\ UNCHANGED <<nvariant, listings, out, kept, wvars, fetch, tvars>>

NextNormalize == ExecuteNormalize \/ ExecuteOnOutput

SpecNormalize == InitNormalize /\ [][NextNormalize]_vars

-----------------------------------------------------------------------------
(* Properties of normalizeAndDedupeListings                                *)

Sentinel == Str(SENTINEL)

EntryFields ==
    {"mls", "url", "address", "price", "beds", "baths", "type", "note_fr",
     "note_en"}

Resolved(i) == ResolveMls(nvariant, listings[i])

\* fragments i and j of the input resolve to the same real identifier
SameIdentifier(i, j) == Resolved(i) = Resolved(j) /\ Resolved(i) # Sentinel

\* fragments i and j have no identifier and the same url (a string, be it
\* the empty one)
SameUrlNoIdentifier(i, j) ==
    /\ Resolved(i) = Sentinel
    /\ Resolved(j) = Sentinel
    /\ ~IsNullish(listings[i].url)
    /\ listings[i].url = listings[j].url

(* C1 as stated: after normalization no two entries share a non-sentinel   *)
(* mls, and no two entries with the sentinel mls share a url.              *)
C1_NoSharedMlsOrUrl ==
    npc # "ready" =>
        \A a, b \in 1..Len(out) :
            a < b =>
                /\ ~(out[a].mls = out[b].mls /\ out[a].mls # Sentinel)
                /\ ~(/\ out[a].mls = Sentinel
                     /\ out[b].mls = Sentinel
                     /\ IsString(out[a].url)
                     /\ out[a].url = out[b].url)

(* C1 amended: after normalization no two entries share a non-sentinel     *)
(* mls, and no two entries with the sentinel mls share a non-empty url.    *)
C1_NoSharedMlsOrNonEmptyUrl ==
    npc # "ready" =>
        \A a, b \in 1..Len(out) :
            a < b =>
                /\ ~(out[a].mls = out[b].mls /\ out[a].mls # Sentinel)
                /\ ~(/\ out[a].mls = Sentinel
                     /\ out[b].mls = Sentinel
                     /\ Truthy(out[a].url)
                     /\ out[a].url = out[b].url)

\* an invocation returned after dropping a fragment whose url, with no
\* identifier, repeats an earlier one
C1_Witness ==
    /\ npc = "done"
    /\ \E i, j \in 1..Len(listings) :
            i < j /\ SameUrlNoIdentifier(i, j) /\ Truthy(listings[i].url)
    /\ Len(out) < Len(listings)
    /\ \E a \in 1..Len(out) : out[a].mls = Sentinel /\ Truthy(out[a].url)

\* every fragment resolves to a real identifier and no two to the same one
DistinctIdentifiers ==
    /\ \A i \in 1..Len(listings) : Resolved(i) # Sentinel
    /\ \A i, j \in 1..Len(listings) : i < j => Resolved(i) # Resolved(j)

(* C2: the output never has more than 12 entries; from more than 12        *)
(* fragments with pairwise distinct identifiers it has exactly 12, the     *)
(* first 12 fragments in input order.                                      *)
C2_CapTwelve ==
    npc # "ready" =>
        /\ Len(out) <= MaxListings
        /\ (Len(listings) > MaxListings /\ DistinctIdentifiers) =>
                /\ Len(out) = MaxListings
                /\ kept = [k \in 1..MaxListings |-> k]
                /\ \A k \in 1..MaxListings :
                        /\ out[k].mls = Resolved(k)
                        /\ out[k].url = Coalesce(listings[k].url, Null)

C2_Witness ==
    /\ npc = "done"
    /\ Len(listings) > MaxListings
    /\ DistinctIdentifiers
    /\ Len(out) = MaxListings

\* fragment i repeats the key of the earlier fragment j
RepeatsEarlier(i) ==
    \E j \in 1..(i - 1) : SameIdentifier(j, i) \/ SameUrlNoIdentifier(j, i)

KeptIndices == {kept[k] : k \in 1..Len(kept)}

\* 12 entries had been emitted before fragment i was reached
PastCap(i) == Len(kept) = MaxListings /\ i > kept[MaxListings]

\* fragment i has neither an identifier nor a url
Keyless(i) == Resolved(i) = Sentinel /\ IsNullish(listings[i].url)

(* C3: fragments are kept in input order; a fragment is omitted only when  *)
(* it repeats an earlier fragment's identifier (or, with no identifier,    *)
(* its url) or 12 entries were already emitted; a fragment with neither    *)
(* identifier nor url is always kept; a kept entry carries the fields of   *)
(* its own fragment only.                                                  *)
C3_OmitsOnlyRepeatsOrPastCap ==
    npc # "ready" =>
        /\ Len(out) = Len(kept)
        /\ \A k \in 1..(Len(kept) - 1) : kept[k] < kept[k + 1]
        /\ \A i \in 1..Len(listings) :
                /\ i \notin KeptIndices => RepeatsEarlier(i) \/ PastCap(i)
                /\ (Keyless(i) /\ ~PastCap(i)) => i \in KeptIndices
        /\ \A k \in 1..Len(kept) :
                /\ out[k].mls = Resolved(kept[k])
                /\ \A f \in EntryFields \ {"mls", "price", "beds", "baths"} :
                        \/ IsNullish(out[k][f])
                        \/ out[k][f] = listings[kept[k]][f]

\* a canonical listing: no alias property, a trimmed non-empty mls, text or
\* null elsewhere, integers or null in the numeric fields
CanonicalListing(it) ==
    /\ \A f \in FragmentFields \ EntryFields : it[f] = Undefined
    /\ IsString(it.mls) /\ it.mls.s # <<>> /\ Trim(it.mls.s) = it.mls.s
    /\ \A f \in {"url", "address", "type", "note_fr", "note_en"} :
            it[f] = Null \/ (IsString(it[f]) /\ it[f].s # <<>>)
    /\ \A f \in {"price", "beds", "baths"} : it[f] = Null \/ IsInteger(it[f])

CanonicalBatch ==
    /\ Len(listings) <= MaxListings
    /\ \A i \in 1..Len(listings) : CanonicalListing(listings[i])
    /\ \A i, j \in 1..Len(listings) :
            i < j =>
                /\ ~(listings[i].mls = listings[j].mls
                        /\ listings[i].mls # Sentinel)
                /\ ~(/\ listings[i].mls = Sentinel
                     /\ listings[j].mls = Sentinel
                     /\ listings[i].url # Null
                     /\ listings[i].url = listings[j].url)

(* C4: normalizing a canonical, duplicate-free batch of at most 12         *)
(* entries returns the same entries with the same field values in the      *)
(* same order, and so does normalizing the tool's own output.              *)
C4_Idempotent ==
    /\ (npc # "ready" /\ CanonicalBatch) =>
            /\ Len(out) = Len(listings)
            /\ \A k \in 1..Len(out) : \A f \in EntryFields :
                    Coalesce(out[k][f], Null) = listings[k][f]
    /\ npc = "redone" => out2 = out

-----------------------------------------------------------------------------
(* fetchHtmlPage                                                           *)

MaxBody == 2    \* a response body holds up to MaxBody lexical items
HtmlCap == 2000

ScriptBlock == "<script>x</script>"
StyleBlock == "<style>x</style>"
CommentBlock == "<!--x-->"

\* a body is a sequence of lexical items: a whole script element, a whole
\* style element, a whole comment, a blank, a character of text
BodyItems == {ScriptBlock, StyleBlock, CommentBlock, " ", "p"}

Bodies == UNION {[1..n -> BodyItems] : n \in 0..MaxBody}

IsMarkupKept(c) == c \notin {ScriptBlock, StyleBlock, CommentBlock}

\* .replace(/\s+/g, " ")
RECURSIVE CollapseWhitespace(_)
CollapseWhitespace(s) ==
    IF Len(s) < 2 THEN s
    ELSE IF s[1] \in Whitespace /\ s[2] \in Whitespace
         THEN CollapseWhitespace(Tail(s))
         ELSE <<s[1]>> \o CollapseWhitespace(Tail(s))

\* const stripScriptsStyles (tpm)
stripScriptsStyles(html) == Trim(CollapseWhitespace(SelectSeq(html, IsMarkupKept)))

\* .slice(0, 2000)
Slice(s, cap) == SubSeq(s, 1, IF Len(s) < cap THEN Len(s) ELSE cap)

\* what the upstream does: fetch() rejects (network error, timeout, abort),
\* or resolves to a response whose text() rejects or yields the body
UpstreamOutcomes ==
    {[kind |-> "rejects", ok |-> FALSE, body |-> <<>>]}
    \cup {[kind |-> k, ok |-> o, body |-> b] :
            k \in {"responds"}, o \in BOOLEAN, b \in Bodies}
    \cup {[kind |-> "text_rejects", ok |-> o, body |-> <<>>] : o \in BOOLEAN}

FetchVariants == {"tpm", "strict", "loose"}

\* the try block of execute has no statement that throws to the caller:
\* every rejection lands in `catch { return { url, html: "" } }`
FetchTpm(up) ==
    IF up.kind # "responds" THEN <<>>
    ELSE Slice(stripScriptsStyles(up.body), HtmlCap)

\* if (!res.ok) throw new Error(String(res.status));
FetchStrict(up) ==
    IF up.kind # "responds" \/ ~up.ok THEN <<>> ELSE up.body

FetchLoose(up) ==
    IF up.kind # "responds" THEN <<>> ELSE up.body

FetchHtml(v, up) ==
    CASE v = "tpm" -> FetchTpm(up)
      [] v = "strict" -> FetchStrict(up)
      [] OTHER -> FetchLoose(up)

NormalizeIdle ==
    /\ nvariant = "tpm"
    /\ listings = <<>>
    /\ npc = "idle"
    /\ out = <<>>
    /\ kept = <<>>
    /\ out2 = <<>>

InitFetch ==
    /\ \E v \in FetchVariants, up \in UpstreamOutcomes :
            fetch = [variant |-> v, pc |-> "called", upstream |-> up.kind,
                     ok |-> up.ok, body |-> up.body, html |-> <<>>]
    /\ NormalizeIdle
    /\ WorkflowIdle
    /\ SearchIdle
    /\ PricingIdle
    /\ RunsIdle

ExecuteFetch ==
    /\ fetch.pc = "called"
    /\ fetch' = [fetch EXCEPT
                    !.pc = "returned",
                    !.html = FetchHtml(fetch.variant,
                                [kind |-> fetch.upstream, ok |-> fetch.ok,
                                 body |-> fetch.body])]
    /\ UNCHANGED <<nvars, wvars, tvars>>

NextFetch == ExecuteFetch

SpecFetch == InitFetch /\ [][NextFetch]_vars

\* the upstream fetch failed: no response, a non-success status, or a body
\* that could not be read
UpstreamFailed ==
    fetch.upstream \in {"rejects", "text_rejects"}
        \/ (fetch.upstream = "responds" /\ ~fetch.ok)

(* C10: fetchHtmlPage never throws, and returns an empty html string on    *)
(* every failure of the upstream fetch: network error, timeout,            *)
(* non-success status.                                                     *)
C10_FailureGivesEmptyHtml ==
    \/ fetch.pc \in {"idle", "called"}
    \/ /\ fetch.pc = "returned"
       /\ UpstreamFailed => fetch.html = <<>>

-----------------------------------------------------------------------------
(* runWorkflow behind POST /runWorkflow                                    *)

MaxTurns == 4       \* planner responses explored per run
MaxParallel == 2    \* tool calls explored per planner response

WorkflowVariants == {"stub", "tpm", "strict", "loose"}

\* import { runWorkflow } from "./main.js"
DeployedVariant == "stub"

\* the tpm runWorkflow calls no guardrail
HasGuardrail(v) == v # "tpm"

\* guardrails configured: Moderation and Contains PII in stub, Moderation
\* elsewhere; one result per guardrail, TRUE when its tripwire is triggered
GuardrailCount(v) == IF v = "stub" THEN 2 ELSE 1

\* (results ?? []).some((r) => r?.tripwireTriggered)
guardrailsHasTripwire(results) == \E i \in 1..Len(results) : results[i]

\* modelSettings.parallelToolCalls
ParallelToolCalls(v) == v # "tpm"

\* what runWorkflow does once runner.run has resolved with finalOutput fo
\* ("present" or "undefined")
AfterRun(v, fo) ==
    CASE v = "stub" ->
            IF fo # "present" THEN [kind |-> "throws", value |-> "none"]
            ELSE [kind |-> "returns", value |-> "undefined"]
      [] v \in {"tpm", "strict"} ->
            IF fo # "present" THEN [kind |-> "throws", value |-> "none"]
            ELSE [kind |-> "returns", value |-> "output"]
      [] OTHER ->
            IF fo # "present"
            THEN [kind |-> "returns", value |-> "output_fields_undefined"]
            ELSE [kind |-> "returns", value |-> "output"]

\* try { res.json(await runWorkflow(req.body)) }
\* catch (e) { res.status(500).json({ error: e.message }) }
\* body: "output" {output_text, output_parsed} | "blocked" | "error" {error}
\*       | "undefined" (nothing to serialize) | "output_fields_undefined" {}
PostHandler(result) ==
    IF result.kind = "throws" THEN [status |-> 500, body |-> "error"]
    ELSE [status |-> 200, body |-> result.value]

InitWorkflow ==
    /\ wvariant \in WorkflowVariants
    /\ guardResults \in [1..GuardrailCount(wvariant) -> BOOLEAN]
    /\ wpc = "start"
    /\ guardDone = FALSE
    /\ agentRuns = 0
    /\ turns = 0
    /\ calls = [x \in ToolNames |-> 0]
    /\ parCalls = 0
    /\ final = "none"
    /\ response = [status |-> 0, body |-> "none"]
    /\ NormalizeIdle
    /\ FetchIdle
    /\ SearchIdle
    /\ PricingIdle
    /\ RunsIdle

\* await runGuardrails(...): it rejects, or resolves to guardResults; on a
\* tripwire runWorkflow returns the blocked payload, else calls runner.run
CheckGuardrails ==
    /\ wpc = "start"
    /\ HasGuardrail(wvariant)
    /\ \E settles \in {"resolves", "rejects"} :
        IF settles = "rejects"
        THEN /\ response' = PostHandler([kind |-> "throws", value |-> "none"])
             /\ wpc' = "responded"
             /\ UNCHANGED <<guardDone, agentRuns>>
        ELSE /\ guardDone' = TRUE
             /\ IF guardrailsHasTripwire(guardResults)
                THEN /\ response' = PostHandler([kind |-> "returns",
                                                 value |-> "blocked"])
                     /\ wpc' = "responded"
                     /\ UNCHANGED agentRuns
                ELSE /\ agentRuns' = agentRuns + 1
                     /\ wpc' = "agent"
                     /\ UNCHANGED response
    /\ UNCHANGED <<wvariant, guardResults, turns, calls, parCalls, final,
                   nvars, fetch, tvars>>

\* tpm: runner.run is called right away
StartAgent ==
    /\ wpc = "start"
    /\ ~HasGuardrail(wvariant)
    /\ agentRuns' = agentRuns + 1
    /\ wpc' = "agent"
    /\ UNCHANGED <<wvariant, guardResults, guardDone, turns, calls, parCalls,
                   final, response, nvars, fetch, tvars>>

\* the planner answers with a call of one of the agent's tools, which the
\* runner executes
ToolCallNewTurn ==
    /\ wpc = "agent"
    /\ turns < MaxTurns
    /\ \E tool \in ToolNames : calls' = [calls EXCEPT ![tool] = @ + 1]
    /\ turns' = turns + 1
    /\ parCalls' = 1
    /\ UNCHANGED <<wvariant, guardResults, guardDone, agentRuns, wpc, final,
                   response, nvars, fetch, tvars>>

\* with parallelToolCalls the same answer may carry further tool calls
ToolCallSameTurn ==
    /\ wpc = "agent"
    /\ ParallelToolCalls(wvariant)
    /\ parCalls >= 1
    /\ parCalls < MaxParallel
    /\ \E tool \in ToolNames : calls' = [calls EXCEPT ![tool] = @ + 1]
    /\ parCalls' = parCalls + 1
    /\ UNCHANGED <<wvariant, guardResults, guardDone, agentRuns, wpc, turns,
                   final, response, nvars, fetch, tvars>>

\* runner.run settles: it rejects, or resolves with or without a final
\* output; runWorkflow and the POST handler run to the response
AgentSettles ==
    /\ wpc = "agent"
    /\ \E outcome \in {"present", "undefined", "rejects"} :
        IF outcome = "rejects"
        THEN /\ response' = PostHandler([kind |-> "throws", value |-> "none"])
             /\ UNCHANGED final
        ELSE /\ final' = outcome
             /\ response' = PostHandler(AfterRun(wvariant, outcome))
    /\ wpc' = "responded"
    /\ UNCHANGED <<wvariant, guardResults, guardDone, agentRuns, turns, calls,
                   parCalls, nvars, fetch, tvars>>

NextWorkflow ==
    \/ CheckGuardrails
    \/ StartAgent
    \/ ToolCallNewTurn
    \/ ToolCallSameTurn
    \/ AgentSettles

SpecWorkflow == InitWorkflow /\ [][NextWorkflow]_vars

-----------------------------------------------------------------------------
(* Properties of runWorkflow                                               *)

NoToolCalled == \A tool \in ToolNames : calls[tool] = 0

(* C5: the guardrail check completes before the agent run starts, and if   *)
(* any guardrail result has its tripwire triggered the run returns a       *)
(* blocked or failure payload and neither the agent nor a tool is invoked. *)
C5_GuardrailBeforeAgent ==
    /\ agentRuns > 0 => guardDone
    /\ guardrailsHasTripwire(guardResults) =>
            /\ agentRuns = 0
            /\ NoToolCalled
            /\ wpc = "responded" => response.body \in {"blocked", "error"}

(* C6: in every run, whatever tool calls the planner requests,             *)
(* fetchHtmlPage is executed at most 3 times.                              *)
C6_AtMostThreeFetches == calls["fetch"] <= 3

(* C7: in every run normalizeAndDedupeListings is executed at most once.   *)
C7_AtMostOneNormalization == calls["normalize"] <= 1

(* C8: a run stays within the turn ceiling, and a run whose agent ends     *)
(* without a validated result answers with an (empty) listings batch, not  *)
(* with an error.                                                          *)
C8_EmptyResultNotError ==
    /\ turns <= MaxTurns
    /\ (wpc = "responded" /\ agentRuns > 0 /\ final # "present") =>
            response = [status |-> 200, body |-> "output"]

(* C9: every request ends in a success body carrying output_text and       *)
(* output_parsed, a blocked payload, or HTTP 500 with {error}; a run whose *)
(* agent produced a final output answers with the success body, a run      *)
(* with no final output with HTTP 500.                                     *)
C9_ThreeOutcomes ==
    (wpc = "responded" /\ wvariant = DeployedVariant) =>
        /\ response \in {[status |-> 200, body |-> "output"],
                         [status |-> 200, body |-> "blocked"],
                         [status |-> 500, body |-> "error"]}
        /\ final = "present" => response = [status |-> 200, body |-> "output"]
        /\ final = "undefined" => response = [status |-> 500, body |-> "error"]

-----------------------------------------------------------------------------
(* searchRealEstateListings                                                *)

MaxLinks == 3   \* organic_results holds up to MaxLinks items

\* const allowed = ["centris.ca", "realtor.ca", "royallepage.ca",
\*                  "remax-quebec.com", "duproprio.com"]
allowed ==
    { <<"c", "e", "n", "t", "r", "i", "s", ".", "c", "a">>,
      <<"r", "e", "a", "l", "t", "o", "r", ".", "c", "a">>,
      <<"r", "o", "y", "a", "l", "l", "e", "p", "a", "g", "e", ".", "c", "a">>,
      <<"r", "e", "m", "a", "x", "-", "q", "u", "e", "b", "e", "c", ".",
        "c", "o", "m">>,
      <<"d", "u", "p", "r", "o", "p", "r", "i", "o", ".", "c", "o", "m">> }

HostCentris == <<"c", "e", "n", "t", "r", "i", "s", ".", "c", "a">>
HostCentrisUpper == <<"C", "e", "n", "t", "r", "i", "s", ".", "c", "a">>
HostWwwRealtor ==
    <<"w", "w", "w", ".", "r", "e", "a", "l", "t", "o", "r", ".", "c", "a">>
HostNotCentris ==
    <<"n", "o", "t", "c", "e", "n", "t", "r", "i", "s", ".", "c", "a">>
HostExample == <<"e", "x", "a", "m", "p", "l", "e", ".", "c", "o", "m">>

\* item.link of an organic result: absent, a text `new URL` rejects, or a
\* URL whose authority names `host`
Links ==
    { [kind |-> "missing", host |-> <<>>],
      [kind |-> "invalid", host |-> <<>>] }
    \cup { [kind |-> "url", host |-> h] :
             h \in {HostCentris, HostCentrisUpper, HostWwwRealtor,
                    HostNotCentris, HostExample} }

LinkLists == UNION {[1..n -> Links] : n \in 0..MaxLinks}

\* String.prototype.toLowerCase, on the letters hosts are written with
ToLowerCase(s) == [i \in 1..Len(s) |-> IF s[i] = "C" THEN "c" ELSE s[i]]

\* new URL(link).hostname: the parser lower-cases the host of an http(s) URL
Hostname(link) == ToLowerCase(link.host)

\* String.prototype.endsWith
EndsWith(s, suffix) ==
    /\ Len(suffix) <= Len(s)
    /\ SubSeq(s, Len(s) - Len(suffix) + 1, Len(s)) = suffix

\* allowed.some((d) => host === d || host.endsWith("." + d))
IsAllowedHost(host) ==
    \E d \in allowed : host = d \/ EndsWith(host, <<".">> \o d)

\* allowed.some((d) => host.endsWith(d))                         (loose)
IsAllowedHostLoose(host) == \E d \in allowed : EndsWith(host, d)

\* if (results.length >= 3) break;                                 (tpm)
SearchCap == 3

SearchVariants == {"tpm", "strict", "loose"}

\* the for loop of tpm and strict; cap is 3 or input.num
RECURSIVE SearchLoop(_, _, _, _)
SearchLoop(items, i, cap, results) ==
    IF i > Len(items) THEN results
    ELSE LET link == items[i]
         IN  IF link.kind # "url"
             THEN SearchLoop(items, i + 1, cap, results)
             ELSE LET next == IF IsAllowedHost(ToLowerCase(Hostname(link)))
                              THEN Append(results, link) ELSE results
                  IN  IF Len(next) >= cap THEN next
                      ELSE SearchLoop(items, i + 1, cap, next)

\* .map((r) => r.link).filter(...): no cap                        (loose)
SearchFilter(items) ==
    LET Keep(link) == link.kind = "url" /\ IsAllowedHostLoose(Hostname(link))
    IN  SelectSeq(items, Keep)

\* what the upstream does: fetch() rejects, or resolves to a response
\* whose json() rejects or yields data with organic_results = links
SearchUpstream ==
    {[kind |-> "rejects", ok |-> FALSE, links |-> <<>>]}
    \cup {[kind |-> "json_rejects", ok |-> o, links |-> <<>>] : o \in BOOLEAN}
    \cup {[kind |-> "responds", ok |-> o, links |-> l] :
            o \in BOOLEAN, l \in LinkLists}

\* execute of searchRealEstateListings: neither `await fetch` nor
\* `await r.json()` stands in a try block
SearchExecute(v, hasKey, num, up) ==
    IF ~hasKey THEN [kind |-> "returns", results |-> <<>>]
    ELSE IF up.kind = "rejects" THEN [kind |-> "raises", results |-> <<>>]
    ELSE IF v # "loose" /\ ~up.ok THEN [kind |-> "returns", results |-> <<>>]
    ELSE IF up.kind = "json_rejects"
         THEN [kind |-> "raises", results |-> <<>>]
    ELSE [kind |-> "returns",
          results |->
            CASE v = "tpm" -> SearchLoop(up.links, 1, SearchCap, <<>>)
              [] v = "strict" -> SearchLoop(up.links, 1, num, <<>>)
              [] OTHER -> SearchFilter(up.links)]

InitSearch ==
    /\ \E v \in SearchVariants, k \in BOOLEAN, num \in {1, SearchCap},
          up \in SearchUpstream :
            search = [variant |-> v, pc |-> "called", key |-> k, num |-> num,
                      upstream |-> up.kind, ok |-> up.ok, links |-> up.links,
                      results |-> <<>>]
    /\ NormalizeIdle
    /\ WorkflowIdle
    /\ FetchIdle
    /\ PricingIdle
    /\ RunsIdle

ExecuteSearch ==
    /\ search.pc = "called"
    /\ LET r == SearchExecute(search.variant, search.key, search.num,
                              [kind |-> search.upstream, ok |-> search.ok,
                               links |-> search.links])
       IN  search' = [search EXCEPT
                        !.pc = IF r.kind = "raises" THEN "raised"
                               ELSE "returned",
                        !.results = r.results]
    /\ UNCHANGED <<nvars, wvars, fetch, pricing, runs>>

NextSearch == ExecuteSearch

SpecSearch == InitSearch /\ [][NextSearch]_vars

\* no credential, or the upstream call failed: network error, non-success
\* status, unparsable body
SearchFailed ==
    \/ ~search.key
    \/ search.upstream \in {"rejects", "json_rejects"}
    \/ ~search.ok

(* C11: searchRealEstateListings never raises; when no SERPAPI credential  *)
(* is configured or the upstream call fails in any way it returns an       *)
(* empty results sequence.                                                 *)
C11_SearchNeverRaises ==
    /\ search.pc # "raised"
    /\ (search.pc = "returned" /\ SearchFailed) => search.results = <<>>

\* the hostname is one of the allow-listed domains or a proper subdomain
ExactOrSubdomain(host) ==
    \E d \in allowed :
        \/ host = d
        \/ /\ Len(host) > Len(d) + 1
           /\ SubSeq(host, Len(host) - Len(d) + 1, Len(host)) = d
           /\ host[Len(host) - Len(d)] = "."

(* C12: every URL returned by searchRealEstateListings has a hostname      *)
(* that is exactly one of the five allow-listed domains or a proper        *)
(* subdomain of one; a host that merely ends with an allow-listed string   *)
(* is never returned.                                                      *)
C12_OnlyAllowListedHosts ==
    search.pc = "returned" =>
        \A k \in 1..Len(search.results) :
            ExactOrSubdomain(Hostname(search.results[k]))

-----------------------------------------------------------------------------
(* The price normalizers toPrice and numberFromPriceLike                   *)

MaxPriceLen == 3    \* price texts hold up to MaxPriceLen characters

PriceChars == {"$", "4", "0", ",", "A"}

\* the argument: null, undefined or a text
PriceInputs ==
    {Null, Undefined}
    \cup {Str(t) : t \in UNION {[1..n -> PriceChars] : n \in 0..MaxPriceLen}}

PriceFunctions == {"toPrice", "numberFromPriceLike"}

ApplyPrice(fn, v) ==
    IF fn = "toPrice" THEN toPrice(v) ELSE numberFromPriceLike(v)

InitPrice ==
    /\ \E fn \in PriceFunctions, v \in PriceInputs :
            pricing = [fn |-> fn, pc |-> "called", input |-> v,
                       result |-> Null]
    /\ NormalizeIdle
    /\ WorkflowIdle
    /\ FetchIdle
    /\ SearchIdle
    /\ RunsIdle

ExecutePrice ==
    /\ pricing.pc = "called"
    /\ pricing' = [pricing EXCEPT
                      !.pc = "returned",
                      !.result = ApplyPrice(pricing.fn, pricing.input)]
    /\ UNCHANGED <<nvars, wvars, fetch, search, runs>>

NextPrice == ExecutePrice

SpecPrice == InitPrice /\ [][NextPrice]_vars

\* the input is null, undefined, the empty string or a text without a digit
HasNoDigit(v) == IsNullish(v) \/ StripNonDigits(JsString(v)) = <<>>

(* C13: the price normalizer returns null when its input is null,          *)
(* undefined, the empty string or a string containing no digit; otherwise  *)
(* it returns the base-10 integer formed by the input's digits in order.   *)
C13_PriceFromDigits ==
    pricing.pc = "returned" =>
        pricing.result =
            IF HasNoDigit(pricing.input) THEN Null
            ELSE Num(DigitsValue(StripNonDigits(JsString(pricing.input))))

-----------------------------------------------------------------------------
(* Numeric fields and identifiers of the entries normalizeAndDedupeListings *)
(* emits (SpecNormalize)                                                   *)

\* the digits of a value, in order
DigitsOf(v) == StripNonDigits(JsString(v))

\* v is null, or a finite number whose digits are those of one of the
\* source values, which has at least one digit
FromDigitsOf(v, sources) ==
    \/ v = Null
    \/ /\ IsNumber(v)
       /\ \E f \in sources :
            /\ ~IsNullish(f)
            /\ DigitsOf(f) # <<>>
            /\ DigitsValue(DigitsOf(v)) = DigitsValue(DigitsOf(f))

(* C14: in every entry emitted by normalizeAndDedupeListings, each of      *)
(* price, beds and baths is either null or a finite number built only      *)
(* from digits present in the source fragment: never NaN, never a value    *)
(* such as 0 produced from a source containing no digit.                   *)
C14_NumericFieldsFromDigits ==
    npc \in {"done", "redone"} =>
        \A k \in 1..Len(out) :
            LET it == listings[kept[k]]
            IN  /\ FromDigitsOf(out[k].price,
                        {it.price, it.priceText, it.price_str, it.askingPrice})
                /\ FromDigitsOf(out[k].beds, {it.beds})
                /\ FromDigitsOf(out[k].baths, {it.baths})

(* C15: every record emitted by normalizeAndDedupeListings has an mls that *)
(* is a non-empty string, either a real identifier or the fixed sentinel   *)
(* (the claim says the same of extractListingInfo, whose identifier is a   *)
(* capture group of one or more characters, or the sentinel).              *)
C15_MlsNonEmptyString ==
    npc \in {"done", "redone"} =>
        \A k \in 1..Len(out) :
            IsString(out[k].mls) /\ out[k].mls.s # <<>>

\* the value of an alias is non-empty after trimming
NonEmptyAlias(v) == ~IsNullish(v) /\ Trim(JsString(v)) # <<>>

\* the first of mls, MLS, listingId that is non-empty after trimming,
\* trimmed; the sentinel when there is none
FirstNonEmptyAlias(it) ==
    IF NonEmptyAlias(it.mls) THEN Str(Trim(JsString(it.mls)))
    ELSE IF NonEmptyAlias(it.MLS) THEN Str(Trim(JsString(it.MLS)))
    ELSE IF NonEmptyAlias(it.listingId)
         THEN Str(Trim(JsString(it.listingId)))
    ELSE Sentinel

(* C17: identifier resolution consults the aliases in the fixed order mls, *)
(* MLS, listingId and takes the first one whose value is non-empty after   *)
(* trimming; an alias that is present but empty or whitespace-only is      *)
(* skipped in favour of a later non-empty alias, and the sentinel is used  *)
(* only when no alias is non-empty.                                        *)
C17_FirstNonEmptyAliasWins ==
    npc \in {"done", "redone"} =>
        \A k \in 1..Len(out) :
            out[k].mls = FirstNonEmptyAlias(listings[kept[k]])

-----------------------------------------------------------------------------
(* Two runs, each invoking normalizeAndDedupeListings once, in either      *)
(* order.  execute has no await: an invocation runs to its return before   *)
(* another one starts.                                                     *)

MaxRunLen == 2      \* each run's batch holds up to MaxRunLen fragments

Runs == 1..2

RunFragments ==
    { [Blank EXCEPT !.mls = Str(IdA1), !.url = Str(Url1)],
      [Blank EXCEPT !.mls = Str(<<" ">> \o IdA1 \o <<" ">>),
                    !.url = Str(Url2), !.note_fr = Str(Text)],
      [Blank EXCEPT !.mls = Null, !.url = Str(Url1)],
      [Blank EXCEPT !.url = Str(<<>>)] }

RunBatches == UNION {[1..n -> RunFragments] : n \in 0..MaxRunLen}

\* const seen = new Set<string>(): a Set of its own for every invocation,
\* whatever keys the invocation before it (left) collected
NewSeenShared(left) == left

NewSeen(left) == {}

InitRuns ==
    /\ \E v \in NormalizeVariants, a, b \in RunBatches :
            runs = [variant |-> v, seenLeft |-> {},
                    run |-> <<[pc |-> "called", input |-> a, out |-> <<>>,
                               kept |-> <<>>],
                              [pc |-> "called", input |-> b, out |-> <<>>,
                               kept |-> <<>>]>>]
    /\ NormalizeIdle
    /\ WorkflowIdle
    /\ FetchIdle
    /\ SearchIdle
    /\ PricingIdle

\* run r's invocation of execute, from `const seen = new Set()` to `return`
InvokeNormalize(r) ==
    /\ runs.run[r].pc = "called"
    /\ LET res == NormalizeLoop(runs.variant, runs.run[r].input, 1,
                                [seen |-> NewSeen(runs.seenLeft),
                                 out |-> <<>>, kept |-> <<>>])
       IN  runs' = [runs EXCEPT
                        !.seenLeft = res.seen,
                        !.run[r] = [pc |-> "returned",
                                    input |-> runs.run[r].input,
                                    out |-> res.out, kept |-> res.kept]]
    /\ UNCHANGED <<nvars, wvars, fetch, search, pricing>>

NextRuns == \E r \in Runs : InvokeNormalize(r)

SpecRuns == InitRuns /\ [][NextRuns]_vars

(* C16: concurrent or successive runs share no normalization state: what   *)
(* an invocation of normalizeAndDedupeListings keeps and drops depends     *)
(* only on its own input, never on keys seen by another invocation, in     *)
(* whichever order the two runs' invocations happen.                       *)
C16_NoSharedNormalizationState ==
    \A r \in Runs :
        runs.run[r].pc = "returned" =>
            LET alone == Execute(runs.variant, runs.run[r].input)
            IN  /\ runs.run[r].out = alone.out
                /\ runs.run[r].kept = alone.kept

\* both runs have returned, the earlier one left keys behind, and each
\* kept a fragment carrying the same key as a kept fragment of the other
C16_Witness ==
    /\ \A r \in Runs : runs.run[r].pc = "returned"
    /\ runs.seenLeft # {}
    /\ \E i \in 1..Len(runs.run[1].kept), j \in 1..Len(runs.run[2].kept) :
        LET f == runs.run[1].input[runs.run[1].kept[i]]
            g == runs.run[2].input[runs.run[2].kept[j]]
            kf == DedupKey(runs.variant, f, ResolveMls(runs.variant, f))
            kg == DedupKey(runs.variant, g, ResolveMls(runs.variant, g))
        IN  kf = kg /\ Truthy(kf)


=============================================================================
